---- MODULE Spec2Model ----
(***************************************************************************)
(* A model of recipes/csv_processing/csv_pipeline.py: the cleaning         *)
(* pipeline (clean_dataset), the aggregator (aggregate) and the profiler   *)
(* (profile_dataset / profile_column); of fetch_paginated of               *)
(* recipes/api_ingestion/api_to_dataset.py; and of chunk_text of           *)
(* recipes/data_cleaning/text_cleaner.py.                                  *)
(*                                                                         *)
(* Python values are represented as follows.                               *)
(*   str        a TLA+ string ("" is the empty string)                     *)
(*   Optional   <<>> is None, <<s>> is the string s (every cell of a row   *)
(*              and every group key is such an optional string)            *)
(*   dict       a sequence of <<key, value>> pairs with pairwise distinct  *)
(*              keys, in insertion order                                   *)
(*   list       a sequence                                                 *)
(* Row mappings and row lists are objects: `dicts` and `lists` are the     *)
(* heap, and a reference is an index into it, so that aliasing between the *)
(* caller's rows and the pipeline's working copy is visible.               *)
(***************************************************************************)
EXTENDS Integers, Sequences, FiniteSets, TLC

VARIABLES
    pc,        \* position of the running call ("idle" before, "done"/"raised" after)
    dicts,     \* heap of row mappings: reference -> dict
    lists,     \* heap of row lists: reference -> sequence of dict references
    rows,      \* the caller's rows argument (a list reference)
    input,     \* the content of the caller's rows before the call (never written)
    config,    \* clean_dataset: the config argument
    cleaned,   \* clean_dataset: the local variable cleaned (a list reference)
    changes,   \* clean_dataset: the local variable changes
    args,      \* aggregate: group_by, agg_col, agg_func
    result,    \* aggregate: the returned list of records
    profiles,  \* profile_dataset: the returned dict, column -> profile
    max_pages, \* fetch_paginated: the max_pages argument
    page,      \* fetch_paginated: the loop variable page
    all_items, \* fetch_paginated: the local variable all_items, which it returns
    fetched,   \* the fetches issued so far: <<page number, what fetch_json gave>>
    text,       \* chunk_text: the text passed in
    chunk_size, \* chunk_text: the chunk_size passed in
    overlap,    \* chunk_text: the overlap passed in
    words,      \* chunk_text: text.split()
    chunks,     \* chunk_text: the chunks appended so far
    start       \* chunk_text: the index the next chunk starts at

\* the state of a call of chunk_text
chunkVars == <<text, chunk_size, overlap, words, chunks, start>>

vars == <<pc, dicts, lists, rows, input, config, cleaned, changes, args, result, profiles,
          max_pages, page, all_items, fetched, chunkVars>>

(***************************************************************************)
(* Bounds                                                                  *)
(***************************************************************************)
\* the longest record set of arbitrary rows
MaxRows == 2

\* the longest record set of rows that are duplicates of each other
MaxDedupRows == 3

\* the longest record set passed to aggregate
MaxAggRows == 3

MaxProfileRows == 4

MaxTopRows == 7

\* the largest max_pages of a call of fetch_paginated
MaxPages == 3

\* the longest text passed to chunk_text, in characters
MaxTextLen == 6

\* the largest chunk_size and the largest overlap of a call of chunk_text
MaxChunkSize == 3

MaxOverlap == 3

\* the iterations of chunk_text's loop that are followed; a call that is still
\* in its loop after that many is left in the loop
MaxChunks == 4

(***************************************************************************)
(* Program constants                                                       *)
(***************************************************************************)
\* counter.most_common(5)
TopN == 5

\* non_empty[:3]
SampleSize == 3

(***************************************************************************)
(* Python values                                                           *)
(***************************************************************************)
None == <<>>

Some(s) == <<s>>

IsStr(v) == v # None

SeqToSet(s) == {s[i] : i \in DOMAIN s}

\* str.strip(): the model's only whitespace character is the space
IsSpace(c) == c = " "

RECURSIVE LStrip(_)
LStrip(s) ==
    IF Len(s) > 0 /\ IsSpace(SubSeq(s, 1, 1)) THEN LStrip(SubSeq(s, 2, Len(s))) ELSE s

RECURSIVE RStrip(_)
RStrip(s) ==
    IF Len(s) > 0 /\ IsSpace(SubSeq(s, Len(s), Len(s)))
    THEN RStrip(SubSeq(s, 1, Len(s) - 1))
    ELSE s

StrStrip(s) == RStrip(LStrip(s))

\* str(n) for a natural number n
Digits == "0123456789"

RECURSIVE NatToStr(_)
NatToStr(n) ==
    IF n < 10 THEN SubSeq(Digits, n + 1, n + 1)
    ELSE NatToStr(n \div 10) \o SubSeq(Digits, (n % 10) + 1, (n % 10) + 1)

\* str(fill_value): a fill value is <<"str", s>> or <<"int", n>>
PyStr(x) == IF x[1] = "str" THEN x[2] ELSE NatToStr(x[2])

(***************************************************************************)
(* dict                                                                    *)
(***************************************************************************)
Keys(d) == {d[i][1] : i \in DOMAIN d}

HasKey(d, k) == k \in Keys(d)

KeyIndex(d, k) == CHOOSE i \in DOMAIN d : d[i][1] = k

\* d.get(k, default)
DictGet(d, k, default) == IF HasKey(d, k) THEN d[KeyIndex(d, k)][2] ELSE default

\* d[k] = v: an existing key keeps its position, a new key is appended
DictSet(d, k, v) ==
    IF HasKey(d, k)
    THEN [i \in DOMAIN d |-> IF d[i][1] = k THEN <<k, v>> ELSE d[i]]
    ELSE Append(d, <<k, v>>)

\* {k: v for k, v in items}: a later pair with the same key overwrites the value
RECURSIVE FromItems(_)
FromItems(items) ==
    IF items = <<>> THEN <<>>
    ELSE DictSet(FromItems(SubSeq(items, 1, Len(items) - 1)),
                 items[Len(items)][1], items[Len(items)][2])

\* d1 == d2 in Python: the same keys with the same values, in any order
DictEq(d1, d2) == SeqToSet(d1) = SeqToSet(d2)

(***************************************************************************)
(* String order (Python compares strings by code point)                    *)
(***************************************************************************)
\* the characters of the model in ascending code-point order
Alphabet == " ,-.0123456789ABCDEFGHIJKLMNOPQRSTUVWXYZ_abcdefghijklmnopqrstuvwxyz"

Ord(c) == CHOOSE i \in 1..Len(Alphabet) : SubSeq(Alphabet, i, i) = c

RECURSIVE StrLess(_, _)
StrLess(a, b) ==
    IF Len(b) = 0 THEN FALSE
    ELSE IF Len(a) = 0 THEN TRUE
    ELSE LET x == Ord(SubSeq(a, 1, 1))
             y == Ord(SubSeq(b, 1, 1))
         IN IF x # y THEN x < y
            ELSE StrLess(SubSeq(a, 2, Len(a)), SubSeq(b, 2, Len(b)))

\* sorted(d.items()): the keys of a dict are distinct, so the order of the
\* (key, value) tuples is decided by the keys and the values are never compared
RECURSIVE SortedItems(_)
SortedItems(d) ==
    IF d = <<>> THEN <<>>
    ELSE LET m == CHOOSE i \in DOMAIN d :
                      \A j \in DOMAIN d : j = i \/ StrLess(d[i][1], d[j][1])
             rest == [j \in 1..(Len(d) - 1) |-> IF j < m THEN d[j] ELSE d[j + 1]]
         IN <<d[m]>> \o SortedItems(rest)

(***************************************************************************)
(* clean_dataset                                                           *)
(***************************************************************************)
\* config.get(key, default): an option of the config is <<>> when the key is
\* absent (config = None and config = {} are the config with every key absent)
CfgGet(cfg, key, default) == IF cfg[key] = <<>> THEN default ELSE cfg[key][1]

\* a new list object holding new dict objects
Alloc(ds, ls, new) ==
    [dicts |-> ds \o new,
     lists |-> Append(ls, [i \in 1..Len(new) |-> Len(ds) + i]),
     ref   |-> Len(ls) + 1]

\* cleaned = rows: the same list of the same row mappings, no copy
CopyRowsAlias(ds, ls, r) == [dicts |-> ds, lists |-> ls, ref |-> r]

\* cleaned = [dict(row) for row in rows]
CopyRows(ds, ls, r) == Alloc(ds, ls, [i \in 1..Len(ls[r]) |-> ds[ls[r][i]]])

\* row[k] = row[k].strip() for every string value of the row
StripRow(d) ==
    [i \in DOMAIN d |->
        <<d[i][1], IF IsStr(d[i][2]) THEN Some(StrStrip(d[i][2][1])) ELSE d[i][2]>>]

StripStep(ds, refs) ==
    [r \in DOMAIN ds |-> IF r \in SeqToSet(refs) THEN StripRow(ds[r]) ELSE ds[r]]

RowKeyUnsorted(d) == d

\* key = tuple(sorted(row.items()))
RowKey(d) == SortedItems(d)

\* the loop over cleaned that builds unique
RECURSIVE DedupLoop(_, _, _, _, _)
DedupLoop(ds, refs, i, seen, unique) ==
    IF i > Len(refs) THEN unique
    ELSE LET key == RowKey(ds[refs[i]])
         IN IF key \notin seen
            THEN DedupLoop(ds, refs, i + 1, seen \cup {key}, Append(unique, refs[i]))
            ELSE DedupLoop(ds, refs, i + 1, seen, unique)

DedupStep(ds, refs) == DedupLoop(ds, refs, 1, {}, <<>>)

\* a cell is filled when row.get(col, "").strip() is empty; .strip() of None
\* raises AttributeError
RECURSIVE FillRows(_, _, _, _, _, _)
FillRows(ds, refs, col, fill_value, i, count) ==
    IF i > Len(refs) THEN [dicts |-> ds, count |-> count, raised |-> FALSE]
    ELSE LET v == DictGet(ds[refs[i]], col, Some(""))
         IN IF ~IsStr(v) THEN [dicts |-> ds, count |-> count, raised |-> TRUE]
            ELSE IF StrStrip(v[1]) = ""
            THEN FillRows([ds EXCEPT ![refs[i]] = DictSet(@, col, Some(PyStr(fill_value)))],
                          refs, col, fill_value, i + 1, count + 1)
            ELSE FillRows(ds, refs, col, fill_value, i + 1, count)

\* the loop over fill_nulls.items(), with an entry for a column it filled nowhere
RECURSIVE FillStepLogsAll(_, _, _, _, _)
FillStepLogsAll(ds, refs, fill_nulls, j, log) ==
    IF j > Len(fill_nulls) THEN [dicts |-> ds, changes |-> log, raised |-> FALSE]
    ELSE LET col == fill_nulls[j][1]
             fill_value == fill_nulls[j][2]
             Continue(r) ==
                 IF r.raised THEN [dicts |-> r.dicts, changes |-> log, raised |-> TRUE]
                 ELSE FillStepLogsAll(r.dicts, refs, fill_nulls, j + 1,
                                      Append(log, <<"Filled nulls", r.count, col, fill_value>>))
         IN Continue(FillRows(ds, refs, col, fill_value, 1, 0))

\* the loop over fill_nulls.items()
RECURSIVE FillStep(_, _, _, _, _)
FillStep(ds, refs, fill_nulls, j, log) ==
    IF j > Len(fill_nulls) THEN [dicts |-> ds, changes |-> log, raised |-> FALSE]
    ELSE LET col == fill_nulls[j][1]
             fill_value == fill_nulls[j][2]
             Continue(r) ==
                 IF r.raised THEN [dicts |-> r.dicts, changes |-> log, raised |-> TRUE]
                 ELSE FillStep(r.dicts, refs, fill_nulls, j + 1,
                               IF r.count > 0
                               THEN Append(log, <<"Filled nulls", r.count, col, fill_value>>)
                               ELSE log)
         IN Continue(FillRows(ds, refs, col, fill_value, 1, 0))

\* {k: v for k, v in row.items()}: nothing dropped
DropRowKeepAll(d, drop_cols) == d

\* {k: v for k, v in row.items() if k not in drop_cols}
DropRow(d, drop_cols) == SelectSeq(d, LAMBDA p : p[1] \notin SeqToSet(drop_cols))

\* {k: v for k, v in row.items()}: nothing renamed
RenameRowKeepAll(d, rename) == d

\* {rename.get(k, k): v for k, v in row.items()}
RenameRow(d, rename) ==
    FromItems([i \in DOMAIN d |-> <<DictGet(rename, d[i][1], d[i][1]), d[i][2]>>])

(***************************************************************************)
(* aggregate                                                               *)
(***************************************************************************)
IsDigit(c) == \E i \in 1..Len(Digits) : SubSeq(Digits, i, i) = c

RECURSIVE DigitsValue(_)
DigitsValue(b) ==
    IF Len(b) = 0 THEN 0
    ELSE 10 * DigitsValue(SubSeq(b, 1, Len(b) - 1))
         + ((CHOOSE i \in 1..Len(Digits) : SubSeq(Digits, i, i) = SubSeq(b, Len(b), Len(b))) - 1)

\* float(s) for a string of spaces, a sign, digits, letters and punctuation other
\* than "." and "_": <<n>> for an integer literal with optional surrounding
\* whitespace and sign, <<>> for ValueError
ParseFloat(s) ==
    LET t    == StrStrip(s)
        sign == IF Len(t) > 0 /\ SubSeq(t, 1, 1) \in {"+", "-"} THEN SubSeq(t, 1, 1) ELSE ""
        body == SubSeq(t, Len(sign) + 1, Len(t))
    IN IF Len(body) > 0 /\ \A i \in 1..Len(body) : IsDigit(SubSeq(body, i, i))
       THEN << (IF sign = "-" THEN -1 ELSE 1) * DigitsValue(body) >>
       ELSE <<>>

\* float(row.get(agg_col, 0)) under try/except (ValueError, TypeError): a missing
\* key gives float(0), None gives TypeError, <<>> stands for the caught exception
ToFloat(d, agg_col) ==
    IF ~HasKey(d, agg_col) THEN <<0>>
    ELSE LET v == DictGet(d, agg_col, None)
         IN IF ~IsStr(v) THEN <<>> ELSE ParseFloat(v[1])

\* the loop that builds groups: key -> list of values, in order of first appearance
RECURSIVE GroupLoop(_, _, _, _, _)
GroupLoop(rs, group_by, agg_col, i, groups) ==
    IF i > Len(rs) THEN groups
    ELSE LET key == DictGet(rs[i], group_by, Some(""))
             val == ToFloat(rs[i], agg_col)
         IN IF val = <<>> THEN GroupLoop(rs, group_by, agg_col, i + 1, groups)
            ELSE GroupLoop(rs, group_by, agg_col, i + 1,
                           DictSet(groups, key, Append(DictGet(groups, key, <<>>), val[1])))

\* sorted(groups.items()) compares the keys: None and a str do not compare (TypeError)
SortRaises(groups) ==
    \E i, j \in DOMAIN groups : ~IsStr(groups[i][1]) /\ IsStr(groups[j][1])

RECURSIVE SortedGroups(_)
SortedGroups(g) ==
    IF g = <<>> THEN <<>>
    ELSE LET m == CHOOSE i \in DOMAIN g :
                      \A j \in DOMAIN g : j = i \/ StrLess(g[i][1][1], g[j][1][1])
             rest == [j \in 1..(Len(g) - 1) |-> IF j < m THEN g[j] ELSE g[j + 1]]
         IN <<g[m]>> \o SortedGroups(rest)

RECURSIVE Sum(_)
Sum(values) == IF values = <<>> THEN 0 ELSE values[1] + Sum(Tail(values))

Min(values) == CHOOSE x \in SeqToSet(values) : \A y \in SeqToSet(values) : x <= y

Max(values) == CHOOSE x \in SeqToSet(values) : \A y \in SeqToSet(values) : x >= y

\* round(num / den, 2), in hundredths (den > 0; no quotient of the model lies
\* halfway between two hundredths)
Round2(num, den) == (200 * num + den) \div (2 * den)

\* the reducer table and its .get(agg_func, sum(values)); a value is <<num, den>>
AggValueFallbackCount(values, agg_func) ==
    LET table == [sum   |-> <<Sum(values), 1>>,
                  mean  |-> <<Sum(values), Len(values)>>,
                  count |-> <<Len(values), 1>>,
                  min   |-> <<Min(values), 1>>,
                  max   |-> <<Max(values), 1>>]
    IN IF agg_func \in DOMAIN table THEN table[agg_func] ELSE <<Len(values), 1>>

AggValue(values, agg_func) ==
    LET table == [sum   |-> <<Sum(values), 1>>,
                  mean  |-> <<Sum(values), Len(values)>>,
                  count |-> <<Len(values), 1>>,
                  min   |-> <<Min(values), 1>>,
                  max   |-> <<Max(values), 1>>]
    IN IF agg_func \in DOMAIN table THEN table[agg_func] ELSE <<Sum(values), 1>>

\* {group_by: key, f"{agg_func}_{agg_col}": round(agg_value, 2), "count": len(values)}
AggRecord(key, values, a) ==
    LET v == AggValue(values, a.agg_func)
    IN FromItems(<< <<a.group_by, key>>,
                    <<a.agg_func \o "_" \o a.agg_col, Round2(v[1], v[2])>>,
                    <<"count", Len(values)>> >>)

\* lines 160-183: [raised |-> TRUE] for the TypeError of sorted
AggregateRows(rs, a) ==
    LET Records(sorted) ==
            [k \in DOMAIN sorted |-> AggRecord(sorted[k][1], sorted[k][2], a)]
        Report(groups) ==
            IF SortRaises(groups) THEN [raised |-> TRUE, result |-> <<>>]
            ELSE [raised |-> FALSE, result |-> Records(SortedGroups(groups))]
    IN Report(GroupLoop(rs, a.group_by, a.agg_col, 1, <<>>))

(***************************************************************************)
(* profile_column, profile_dataset                                         *)
(***************************************************************************)
\* [v for v in values if v]: whitespace-only values kept
NonEmptyUnstripped(values) ==
    LET kept == SelectSeq(values, LAMBDA v : IsStr(v) /\ v[1] # "")
    IN [i \in DOMAIN kept |-> kept[i][1]]

\* [v for v in values if v and v.strip()], as strings
NonEmpty(values) ==
    LET kept == SelectSeq(values, LAMBDA v : IsStr(v) /\ v[1] # "" /\ StrStrip(v[1]) # "")
    IN [i \in DOMAIN kept |-> kept[i][1]]

\* v.replace(",", "")
RECURSIVE RemoveCommas(_)
RemoveCommas(s) ==
    IF Len(s) = 0 THEN ""
    ELSE (IF SubSeq(s, 1, 1) = "," THEN "" ELSE SubSeq(s, 1, 1))
         \o RemoveCommas(SubSeq(s, 2, Len(s)))

\* the loop that collects float(v), the separators left in
RECURSIVE NumericValuesKeepCommas(_)
NumericValuesKeepCommas(non_empty) ==
    IF non_empty = <<>> THEN <<>>
    ELSE LET Rest(x) == (IF x = <<>> THEN <<>> ELSE <<x[1]>>)
                        \o NumericValuesKeepCommas(Tail(non_empty))
         IN Rest(ParseFloat(non_empty[1]))

\* the loop that collects float(v.replace(",", "")), skipping ValueError
RECURSIVE NumericValues(_)
NumericValues(non_empty) ==
    IF non_empty = <<>> THEN <<>>
    ELSE LET Rest(x) == (IF x = <<>> THEN <<>> ELSE <<x[1]>>) \o NumericValues(Tail(non_empty))
         IN Rest(ParseFloat(RemoveCommas(non_empty[1])))

\* sorted(values) of numbers
RECURSIVE SortedNumbers(_)
SortedNumbers(values) ==
    IF values = <<>> THEN <<>>
    ELSE LET m == CHOOSE i \in DOMAIN values : \A j \in DOMAIN values : values[i] <= values[j]
         IN <<values[m]>>
            \o SortedNumbers([j \in 1..(Len(values) - 1) |-> IF j < m THEN values[j] ELSE values[j + 1]])

\* statistics.median, as <<num, den>>
Median(values) ==
    LET Middle(s) ==
            IF Len(s) % 2 = 1 THEN <<s[(Len(s) + 1) \div 2], 1>>
            ELSE <<s[Len(s) \div 2] + s[Len(s) \div 2 + 1], 2>>
    IN Middle(SortedNumbers(values))

RECURSIVE SumOfSquares(_)
SumOfSquares(values) ==
    IF values = <<>> THEN 0 ELSE values[1] * values[1] + SumOfSquares(Tail(values))

\* round(statistics.stdev(values), 2), in hundredths: the hundredth nearest to the
\* square root of the sample variance (n * sum(x^2) - sum(x)^2) / (n * (n - 1))
StdevRounded(values) ==
    LET n   == Len(values)
        num == n * SumOfSquares(values) - Sum(values) * Sum(values)
        den == n * (n - 1)
    IN CHOOSE h \in 0..(100 * (Max(values) - Min(values)) + 100) :
           /\ (2 * h - 1) * (2 * h - 1) * den <= 40000 * num \/ h = 0
           /\ 40000 * num < (2 * h + 1) * (2 * h + 1) * den

\* round(null_count / total * 100, 1) if total else 0, in tenths
NullPct(null_count, total) ==
    IF total = 0 THEN 0 ELSE (2000 * null_count + total) \div (2 * total)

\* Counter(non_empty): value -> count, in order of first appearance
RECURSIVE CounterOf(_)
CounterOf(non_empty) ==
    IF non_empty = <<>> THEN <<>>
    ELSE LET Count(c, v) == DictSet(c, v, DictGet(c, v, 0) + 1)
         IN Count(CounterOf(SubSeq(non_empty, 1, Len(non_empty) - 1)), non_empty[Len(non_empty)])

\* most_common with ties in order of last appearance
RECURSIVE MostCommonLastTie(_, _)
MostCommonLastTie(counter, n) ==
    IF counter = <<>> \/ n = 0 THEN <<>>
    ELSE LET m == CHOOSE i \in DOMAIN counter :
                      /\ \A j \in DOMAIN counter : counter[j][2] <= counter[i][2]
                      /\ \A j \in (i + 1)..Len(counter) : counter[j][2] < counter[i][2]
         IN <<counter[m]>>
            \o MostCommonLastTie([j \in 1..(Len(counter) - 1) |->
                                     IF j < m THEN counter[j] ELSE counter[j + 1]], n - 1)

\* counter.most_common(n): by count, descending, ties in order of first appearance
RECURSIVE MostCommon(_, _)
MostCommon(counter, n) ==
    IF counter = <<>> \/ n = 0 THEN <<>>
    ELSE LET m == CHOOSE i \in DOMAIN counter :
                      /\ \A j \in DOMAIN counter : counter[j][2] <= counter[i][2]
                      /\ \A j \in 1..(i - 1) : counter[j][2] < counter[i][2]
         IN <<counter[m]>>
            \o MostCommon([j \in 1..(Len(counter) - 1) |->
                              IF j < m THEN counter[j] ELSE counter[j + 1]], n - 1)

\* profile_column with a stdev of 0 for a single numeric value
ProfileColumnStdevZero(values, col_name) ==
    LET Typed(non_empty, numeric_values) ==
            IF numeric_values # <<>> /\ 2 * Len(numeric_values) > Len(non_empty)
            THEN [type   |-> "numeric",
                  min    |-> Min(numeric_values),
                  max    |-> Max(numeric_values),
                  mean   |-> Round2(Sum(numeric_values), Len(numeric_values)),
                  median |-> Round2(Median(numeric_values)[1], Median(numeric_values)[2])]
                 @@ [stdev |-> IF Len(numeric_values) > 1
                               THEN StdevRounded(numeric_values)
                               ELSE 0]
            ELSE [type   |-> "categorical",
                  top_5  |-> MostCommon(CounterOf(non_empty), TopN),
                  sample |-> SubSeq(non_empty, 1, Min(<<SampleSize, Len(non_empty)>>))]
        Profile(non_empty) ==
            [column       |-> col_name,
             total_rows   |-> Len(values),
             non_null     |-> Len(non_empty),
             null_count   |-> Len(values) - Len(non_empty),
             null_pct     |-> NullPct(Len(values) - Len(non_empty), Len(values)),
             unique_count |-> Cardinality(SeqToSet(non_empty))]
            @@ Typed(non_empty, NumericValues(non_empty))
    IN Profile(NonEmpty(values))

\* lines 35-72
ProfileColumn(values, col_name) ==
    LET Typed(non_empty, numeric_values) ==
            IF numeric_values # <<>> /\ 2 * Len(numeric_values) > Len(non_empty)
            THEN [type   |-> "numeric",
                  min    |-> Min(numeric_values),
                  max    |-> Max(numeric_values),
                  mean   |-> Round2(Sum(numeric_values), Len(numeric_values)),
                  median |-> Round2(Median(numeric_values)[1], Median(numeric_values)[2])]
                 @@ (IF Len(numeric_values) > 1
                     THEN [stdev |-> StdevRounded(numeric_values)]
                     ELSE <<>>)
            ELSE [type   |-> "categorical",
                  top_5  |-> MostCommon(CounterOf(non_empty), TopN),
                  sample |-> SubSeq(non_empty, 1, Min(<<SampleSize, Len(non_empty)>>))]
        Profile(non_empty) ==
            [column       |-> col_name,
             total_rows   |-> Len(values),
             non_null     |-> Len(non_empty),
             null_count   |-> Len(values) - Len(non_empty),
             null_pct     |-> NullPct(Len(values) - Len(non_empty), Len(values)),
             unique_count |-> Cardinality(SeqToSet(non_empty))]
            @@ Typed(non_empty, NumericValues(non_empty))
    IN Profile(NonEmpty(values))

\* lines 80-89 (the printed summary is not part of the state)
ProfileDataset(headers, rs) ==
    FromItems([c \in DOMAIN headers |->
        <<headers[c],
          ProfileColumn([i \in DOMAIN rs |-> DictGet(rs[i], headers[c], Some(""))], headers[c])>>])

(***************************************************************************)
(* Inputs                                                                  *)
(***************************************************************************)
\* the dicts with the keys ks, in this order, the value of key ks[i] drawn from vals[i]
RowsOver(ks, vals) ==
    {[i \in DOMAIN ks |-> <<ks[i], f[i]>>] :
        f \in {g \in [DOMAIN ks -> UNION SeqToSet(vals)] :
                  \A i \in DOMAIN ks : g[i] \in vals[i]}}

\* a cell is None, empty, blank, or text with or without surrounding whitespace
CityCells == {None, Some(""), Some(" "), Some("a"), Some(" a ")}

\* the rows a caller passes to clean_dataset: a row has none, one or both of the
\* columns city and town, in either order
CleanRows ==
    RowsOver(<<>>, <<>>)
    \cup RowsOver(<<"city">>, <<CityCells>>)
    \cup RowsOver(<<"town">>, <<{Some("b")}>>)
    \cup RowsOver(<<"city", "town">>, <<{Some(""), Some("a")}, {Some("b")}>>)
    \cup RowsOver(<<"town", "city">>, <<{Some("b")}, {Some(""), Some("a")}>>)

\* the rows of the longer record sets: duplicates up to whitespace and key order
DedupRows ==
    RowsOver(<<"city">>, <<{Some("a"), Some(" a ")}>>)
    \cup RowsOver(<<"city", "town">>, <<{Some("a")}, {Some("b")}>>)
    \cup RowsOver(<<"town", "city">>, <<{Some("b")}, {Some("a")}>>)

\* the rows a caller passes to aggregate: a group cell is None or a name, a
\* value cell is None, empty, a number with or without whitespace, or other text;
\* a row may lack the value column or the group column
DeptCells == {None, Some("Eng"), Some("Sales")}

SalaryCells == {None, Some(""), Some("1"), Some(" 2 "), Some("n/a")}

AggRows ==
    RowsOver(<<"dept", "salary">>, <<DeptCells, SalaryCells>>)
    \cup RowsOver(<<"dept">>, <<{Some("Eng")}>>)
    \cup RowsOver(<<"salary">>, <<{Some("1")}>>)

AggFuncs == {"sum", "mean", "count", "min", "max", "median"}

AggArgs == [group_by : {"dept"}, agg_col : {"salary"}, agg_func : AggFuncs]

\* the rows a caller passes to profile_dataset to profile the column v: a cell is
\* None, blank, a number (with whitespace, with a thousands separator), text, or
\* a lone separator; a row may lack the column, which profile_dataset reads as ""
ProfileCells ==
    {None, Some(" "), Some("1"), Some("2"), Some(" 3"), Some("1,0"), Some("x"), Some(",")}

ProfileRows == RowsOver(<<>>, <<>>) \cup RowsOver(<<"v">>, <<ProfileCells>>)

\* the longer record sets hold up to six distinct values, more than top_5 has
\* places; the values are named in order of first appearance, along the alphabet
\* or against it
TopLabels == {<<"a", "b", "c", "d", "e", "f">>, <<"f", "e", "d", "c", "b", "a">>}

\* the sequences of k numbers in which every number is at most one more than the
\* largest before it, and at most n
RECURSIVE Growth(_, _)
Growth(k, n) ==
    IF k = 0 THEN {<<>>}
    ELSE {Append(g, v) : g \in Growth(k - 1, n), v \in 1..n} \cap
         {g \in [1..k -> 1..n] : \A i \in 1..k : \A v \in 1..(g[i] - 1) : \E j \in 1..(i - 1) : g[j] = v}

TopRecordSets(n) ==
    UNION {{[i \in 1..k |-> << <<"v", Some(labels[g[i]])>> >>] : g \in Growth(k, 6)} :
              k \in 0..n, labels \in TopLabels}

ProfileHeaders == {<<"v">>}

\* profile_dataset over the rows of the cleaning pipeline
CleanHeaders == {<<"city", "town">>, <<"town">>}

\* aggregate over the rows of the cleaning pipeline
CleanAggArgs == [group_by : {"city"}, agg_col : {"town"}, agg_func : {"sum", "median"}]

RecordSets(Rows, n) == UNION {[1..k -> Rows] : k \in 0..n}

Absent == <<>>

\* an option is absent (its default applies) or present; True is the default of
\* strip_whitespace and remove_duplicates
Configs ==
    [strip_whitespace  : {Absent, <<FALSE>>},
     remove_duplicates : {Absent, <<FALSE>>},
     fill_nulls        : {Absent,
                          << << <<"city", <<"str", "U">> >> >> >>,
                          << << <<"city", <<"str", "U">> >>, <<"town", <<"int", 0>> >> >> >>},
     drop_columns      : {Absent, << <<"city">> >>},
     rename_columns    : {Absent,
                          << << <<"city", "town">> >> >>,
                          << << <<"city", "town">>, <<"town", "city">> >> >>}]

NoConfig ==
    [strip_whitespace |-> Absent, remove_duplicates |-> Absent, fill_nulls |-> Absent,
     drop_columns |-> Absent, rename_columns |-> Absent]

\* the configs that name the documented option filter_rows, which no line of
\* clean_dataset reads
FilterConfigs ==
    [strip_whitespace  : {Absent, <<FALSE>>},
     remove_duplicates : {Absent, <<FALSE>>},
     fill_nulls        : {Absent, << << <<"city", <<"str", "U">> >> >> >>},
     drop_columns      : {Absent},
     rename_columns    : {Absent},
     filter_rows       : {Absent, << << <<"city", <<"a">> >> >> >>}]

NoArgs == [group_by |-> "", agg_col |-> "", agg_func |-> ""]

InitWith(Rows, n) ==
    /\ input \in RecordSets(Rows, n)
    /\ dicts = input
    /\ lists = << [i \in 1..Len(input) |-> i] >>
    /\ rows = 1
    /\ pc = "idle"
    /\ config = NoConfig
    /\ cleaned = 0
    /\ changes = <<>>
    /\ args = NoArgs
    /\ result = <<>>
    /\ profiles = <<>>
    /\ max_pages = 0
    /\ page = 0
    /\ all_items = <<>>
    /\ fetched = <<>>
    /\ text = ""
    /\ chunk_size = 0
    /\ overlap = 0
    /\ words = <<>>
    /\ chunks = <<>>
    /\ start = 0

Init == InitWith(CleanRows, MaxRows) \/ InitWith(DedupRows, MaxDedupRows)

\* the state before a call on one of the given record sets
InitFrom(inputs) ==
    /\ input \in inputs
    /\ dicts = input
    /\ lists = << [i \in 1..Len(input) |-> i] >>
    /\ rows = 1
    /\ pc = "idle"
    /\ config = NoConfig
    /\ cleaned = 0
    /\ changes = <<>>
    /\ args = NoArgs
    /\ result = <<>>
    /\ profiles = <<>>
    /\ max_pages = 0
    /\ page = 0
    /\ all_items = <<>>
    /\ fetched = <<>>
    /\ text = ""
    /\ chunk_size = 0
    /\ overlap = 0
    /\ words = <<>>
    /\ chunks = <<>>
    /\ start = 0

\* the row mappings a list of references holds
Content(refs) == [i \in DOMAIN refs |-> dicts[refs[i]]]

(***************************************************************************)
(* clean_dataset, one action per step                                      *)
(***************************************************************************)
\* the statement order of the function body: pc names the step to run next
StepAfterDedupFirst(step) ==
    CASE step = "call"   -> "dedup"
      [] step = "dedup"  -> "strip"
      [] step = "strip"  -> "fill"
      [] step = "fill"   -> "drop"
      [] step = "drop"   -> "rename"
      [] step = "rename" -> "done"

StepAfterDedupLast(step) ==
    CASE step = "call"   -> "strip"
      [] step = "strip"  -> "fill"
      [] step = "fill"   -> "drop"
      [] step = "drop"   -> "rename"
      [] step = "rename" -> "dedup"
      [] step = "dedup"  -> "done"

StepAfterRenameFirst(step) ==
    CASE step = "call"   -> "strip"
      [] step = "strip"  -> "dedup"
      [] step = "dedup"  -> "rename"
      [] step = "rename" -> "fill"
      [] step = "fill"   -> "drop"
      [] step = "drop"   -> "done"

StepAfter(step) ==
    CASE step = "call"   -> "strip"
      [] step = "strip"  -> "dedup"
      [] step = "dedup"  -> "fill"
      [] step = "fill"   -> "drop"
      [] step = "drop"   -> "rename"
      [] step = "rename" -> "done"

\* lines 104-106
CleanCall(cfg) ==
    /\ pc = "idle"
    /\ \E c \in {CopyRows(dicts, lists, rows)} :
          /\ dicts' = c.dicts
          /\ lists' = c.lists
          /\ cleaned' = c.ref
    /\ config' = cfg
    /\ changes' = <<>>
    /\ pc' = StepAfter("call")
    /\ UNCHANGED <<rows, input, args, result, profiles, max_pages, page, all_items, fetched, chunkVars>>

\* lines 108-114
Strip ==
    /\ pc = "strip"
    /\ IF CfgGet(config, "strip_whitespace", TRUE)
       THEN /\ dicts' = StripStep(dicts, lists[cleaned])
            /\ changes' = Append(changes, <<"Stripped whitespace from all string values">>)
       ELSE UNCHANGED <<dicts, changes>>
    /\ pc' = StepAfter("strip")
    /\ UNCHANGED <<lists, rows, input, config, cleaned, args, result, profiles, max_pages, page, all_items, fetched, chunkVars>>

\* lines 116-128
Dedup ==
    /\ pc = "dedup"
    /\ IF CfgGet(config, "remove_duplicates", TRUE)
       THEN \E unique \in {DedupStep(dicts, lists[cleaned])} :
               LET removed == Len(lists[cleaned]) - Len(unique)
               IN /\ lists' = Append(lists, unique)
                  /\ cleaned' = Len(lists) + 1
                  /\ changes' = IF removed > 0
                                THEN Append(changes, <<"Removed duplicate rows", removed>>)
                                ELSE changes
       ELSE UNCHANGED <<lists, cleaned, changes>>
    /\ pc' = StepAfter("dedup")
    /\ UNCHANGED <<dicts, rows, input, config, args, result, profiles, max_pages, page, all_items, fetched, chunkVars>>

\* lines 130-139
Fill ==
    /\ pc = "fill"
    /\ \E r \in {FillStep(dicts, lists[cleaned], CfgGet(config, "fill_nulls", <<>>), 1, changes)} :
          /\ dicts' = r.dicts
          /\ changes' = r.changes
          /\ pc' = IF r.raised THEN "raised" ELSE StepAfter("fill")
    /\ UNCHANGED <<lists, rows, input, config, cleaned, args, result, profiles, max_pages, page, all_items, fetched, chunkVars>>

\* lines 141-145
Drop ==
    /\ pc = "drop"
    /\ LET drop_cols == CfgGet(config, "drop_columns", <<>>)
       IN IF drop_cols # <<>>
          THEN \E a \in {Alloc(dicts, lists,
                                [i \in 1..Len(lists[cleaned]) |->
                                    DropRow(dicts[lists[cleaned][i]], drop_cols)])} :
                  /\ dicts' = a.dicts
                  /\ lists' = a.lists
                  /\ cleaned' = a.ref
                  /\ changes' = Append(changes, <<"Dropped columns", drop_cols>>)
          ELSE UNCHANGED <<dicts, lists, cleaned, changes>>
    /\ pc' = StepAfter("drop")
    /\ UNCHANGED <<rows, input, config, args, result, profiles, max_pages, page, all_items, fetched, chunkVars>>

\* lines 147-157
Rename ==
    /\ pc = "rename"
    /\ LET rename == CfgGet(config, "rename_columns", <<>>)
       IN IF rename # <<>>
          THEN \E a \in {Alloc(dicts, lists,
                                [i \in 1..Len(lists[cleaned]) |->
                                    RenameRow(dicts[lists[cleaned][i]], rename)])} :
                  /\ dicts' = a.dicts
                  /\ lists' = a.lists
                  /\ cleaned' = a.ref
                  /\ changes' = Append(changes, <<"Renamed columns", rename>>)
          ELSE UNCHANGED <<dicts, lists, cleaned, changes>>
    /\ pc' = StepAfter("rename")
    /\ UNCHANGED <<rows, input, config, args, result, profiles, max_pages, page, all_items, fetched, chunkVars>>

(***************************************************************************)
(* aggregate, one action for the call                                      *)
(***************************************************************************)
\* lines 160-183
Aggregate(a) ==
    /\ pc = "idle"
    /\ \E r \in {AggregateRows(Content(lists[rows]), a)} :
          /\ result' = r.result
          /\ pc' = IF r.raised THEN "agg_raised" ELSE "aggregated"
    /\ args' = a
    /\ UNCHANGED <<dicts, lists, rows, input, config, cleaned, changes, profiles, max_pages, page, all_items, fetched, chunkVars>>

(***************************************************************************)
(* profile_dataset, one action for the call                                *)
(***************************************************************************)
\* lines 75-89
ProfileCall(headers) ==
    /\ pc = "idle"
    /\ profiles' = ProfileDataset(headers, Content(lists[rows]))
    /\ pc' = "profiled"
    /\ UNCHANGED <<dicts, lists, rows, input, config, cleaned, changes, args, result, max_pages, page, all_items, fetched, chunkVars>>

Next ==
    \/ \E cfg \in Configs : CleanCall(cfg)
    \/ Strip
    \/ Dedup
    \/ Fill
    \/ Drop
    \/ Rename
    \/ \E a \in CleanAggArgs : Aggregate(a)
    \/ \E headers \in CleanHeaders : ProfileCall(headers)

Spec == Init /\ [][Next]_vars

\* aggregate alone, over its own rows
InitAgg == InitWith(AggRows, MaxAggRows)

NextAgg == \E a \in AggArgs : Aggregate(a)

SpecAgg == InitAgg /\ [][NextAgg]_vars

\* clean_dataset with the option filter_rows in the config
NextFilter ==
    \/ \E cfg \in FilterConfigs : CleanCall(cfg)
    \/ Strip
    \/ Dedup
    \/ Fill
    \/ Drop
    \/ Rename

SpecFilter == InitWith(CleanRows, MaxRows) /\ [][NextFilter]_vars

\* profile_dataset alone, over its own rows
InitProfile == InitWith(ProfileRows, MaxProfileRows) \/ InitFrom(TopRecordSets(MaxTopRows))

NextProfile == \E headers \in ProfileHeaders : ProfileCall(headers)

SpecProfile == InitProfile /\ [][NextProfile]_vars

(***************************************************************************)
(* fetch_paginated (recipes/api_ingestion/api_to_dataset.py)               *)
(*                                                                         *)
(* What fetch_json gives is a JSON value or an exception:                  *)
(*   <<"list", items>>   a list of items (strings)                         *)
(*   <<"dict", d>>       an object, d a dict whose values are JSON values  *)
(*   <<"int", n>>, <<"null">>   a number, null                             *)
(*   <<"raise">>         fetch_json raised (HTTPError, URLError)           *)
(***************************************************************************)
JList(items) == <<"list", items>>

JDict(d) == <<"dict", d>>

\* the pages an API may answer with: item lists, wrappers with the items under
\* results, items or data, under two of them, under none, with a number where
\* the items should be, a value that is neither a list nor an object, an error
Responses ==
    {JList(<<>>), JList(<<"x">>), JList(<<"y", "z">>),
     JDict(<< <<"results", JList(<<"x">>)>> >>),
     JDict(<< <<"items", JList(<<"y">>)>> >>),
     JDict(<< <<"data", JList(<<"z">>)>>, <<"total", <<"int", 1>> >> >>),
     JDict(<< <<"results", JList(<<>>)>>, <<"items", JList(<<"x">>)>> >>),
     JDict(<< <<"total", <<"int", 0>> >> >>),
     JDict(<< <<"results", <<"int", 5>> >> >>),
     <<"null">>,
     <<"raise">>}

\* bool(v) of a JSON value
Truthy(v) ==
    CASE v[1] = "list" -> v[2] # <<>>
      [] v[1] = "dict" -> v[2] # <<>>
      [] v[1] = "int"  -> v[2] # 0
      [] v[1] = "null" -> FALSE

\* data.get("results") alone
WrapperItemsResultsOnly(d) == DictGet(d, "results", JList(<<>>))

\* data.get("results", data.get("items", data.get("data", [])))
WrapperItems(d) ==
    DictGet(d, "results", DictGet(d, "items", DictGet(d, "data", JList(<<>>))))

\* lines 57-60: the call, up to the loop
FetchPaginatedCall(mp) ==
    /\ pc = "idle"
    /\ max_pages' = mp
    /\ all_items' = <<>>
    /\ page' = 1
    /\ fetched' = <<>>
    /\ pc' = "loop"
    /\ UNCHANGED <<dicts, lists, rows, input, config, cleaned, changes, args, result, profiles,
                   chunkVars>>

\* lines 60-81: one iteration of the loop, page being the page it fetches; a
\* break leaves the loop for the return of line 83; all_items.extend(items)
\* raises TypeError for items that are a number
FetchPage(data) ==
    /\ pc = "loop"
    /\ page <= max_pages
    /\ fetched' = Append(fetched, <<page, data>>)
    /\ \E items \in {IF data[1] = "list" THEN data
                     ELSE IF data[1] = "dict" THEN WrapperItems(data[2])
                     ELSE JList(<<>>)} :
          IF data[1] = "raise" \/ (data[1] = "dict" /\ Truthy(items) /\ items[1] # "list")
          THEN /\ pc' = "fetch_raised"
               /\ UNCHANGED <<all_items, page>>
          ELSE IF data[1] \in {"list", "dict"} /\ Truthy(items)
          THEN /\ all_items' = all_items \o items[2]
               /\ page' = page + 1
               /\ pc' = "loop"
          ELSE /\ pc' = "returned"
               /\ UNCHANGED <<all_items, page>>
    /\ UNCHANGED <<dicts, lists, rows, input, config, cleaned, changes, args, result, profiles,
                   max_pages, chunkVars>>

\* lines 60, 83: the range is exhausted, return all_items
FetchReturn ==
    /\ pc = "loop"
    /\ page > max_pages
    /\ pc' = "returned"
    /\ UNCHANGED <<dicts, lists, rows, input, config, cleaned, changes, args, result, profiles,
                   max_pages, page, all_items, fetched, chunkVars>>

InitFetch == InitFrom({<<>>})

NextFetch ==
    \/ \E mp \in 0..MaxPages : FetchPaginatedCall(mp)
    \/ \E data \in Responses : FetchPage(data)
    \/ FetchReturn

SpecFetch == InitFetch /\ [][NextFetch]_vars

(***************************************************************************)
(* data_cleaning/text_cleaner.py: chunk_text                               *)
(***************************************************************************)
\* the characters of the texts: whitespace and a letter, so that the words of
\* a text differ by their length
TextChars == {" ", "a"}

RECURSIVE TextsOfLen(_)
TextsOfLen(n) ==
    IF n = 0 THEN {""} ELSE {t \o c : t \in TextsOfLen(n - 1), c \in TextChars}

Texts == UNION {TextsOfLen(n) : n \in 0..MaxTextLen}

\* str.split(): the runs of non-whitespace characters, in order; cur is the
\* run being read
RECURSIVE SplitLoop(_, _, _)
SplitLoop(s, cur, acc) ==
    IF Len(s) = 0
    THEN IF Len(cur) = 0 THEN acc ELSE Append(acc, cur)
    ELSE IF IsSpace(SubSeq(s, 1, 1))
    THEN SplitLoop(SubSeq(s, 2, Len(s)), "", IF Len(cur) = 0 THEN acc ELSE Append(acc, cur))
    ELSE SplitLoop(SubSeq(s, 2, Len(s)), cur \o SubSeq(s, 1, 1), acc)

Split(s) == SplitLoop(s, "", <<>>)

\* sep.join(ws)
RECURSIVE Join(_, _)
Join(sep, ws) ==
    IF ws = <<>> THEN ""
    ELSE IF Len(ws) = 1 THEN ws[1]
    ELSE ws[1] \o sep \o Join(sep, Tail(ws))

\* where a slice bound i falls in a list of n items: a negative bound counts
\* from the end, and the result is clamped to 0..n
SliceBound(i, n) ==
    IF i < 0 THEN (IF i + n < 0 THEN 0 ELSE i + n)
    ELSE IF i > n THEN n ELSE i

\* ws[i:j], the indices being Python's (from 0, j excluded)
PySlice(ws, i, j) ==
    SubSeq(ws, SliceBound(i, Len(ws)) + 1, SliceBound(j, Len(ws)))

\* line 101 as "start = end + overlap"
NextStartPastOverlap(end, ov) == end + ov

\* line 101: start = end - overlap
NextStart(end, ov) == end - ov

\* lines 91-95: the call, up to the loop
ChunkTextCall(t, cs, ov) ==
    /\ pc = "idle"
    /\ text' = t
    /\ chunk_size' = cs
    /\ overlap' = ov
    /\ words' = Split(t)
    /\ chunks' = <<>>
    /\ start' = 0
    /\ pc' = "while"
    /\ UNCHANGED <<dicts, lists, rows, input, config, cleaned, changes, args, result, profiles,
                   max_pages, page, all_items, fetched>>

\* lines 97-101: one iteration of the loop
ChunkStep ==
    /\ pc = "while"
    /\ start < Len(words)
    /\ Len(chunks) < MaxChunks
    /\ LET end == start + chunk_size
       IN /\ chunks' = Append(chunks, Join(" ", PySlice(words, start, end)))
          /\ start' = NextStart(end, overlap)
    /\ UNCHANGED <<pc, dicts, lists, rows, input, config, cleaned, changes, args, result,
                   profiles, max_pages, page, all_items, fetched,
                   text, chunk_size, overlap, words>>

\* lines 97, 103: the loop condition fails, return chunks
ChunkReturn ==
    /\ pc = "while"
    /\ ~(start < Len(words))
    /\ pc' = "chunked"
    /\ UNCHANGED <<dicts, lists, rows, input, config, cleaned, changes, args, result, profiles,
                   max_pages, page, all_items, fetched, chunkVars>>

InitChunk == InitFrom({<<>>})

NextChunk ==
    \/ \E t \in Texts, cs \in 1..MaxChunkSize, ov \in 0..MaxOverlap : ChunkTextCall(t, cs, ov)
    \/ ChunkStep
    \/ ChunkReturn

SpecChunk == InitChunk /\ [][NextChunk]_vars

\* a call that was started runs: the interpreter executes the next iteration
\* of the loop, and the return once the loop condition fails
FairSpecChunk == SpecChunk /\ WF_vars(ChunkStep) /\ WF_vars(ChunkReturn)

(***************************************************************************)
(* Vocabulary of the properties                                            *)
(***************************************************************************)
\* whether strip_whitespace / remove_duplicates is on
On(opt) == CfgGet(config, opt, TRUE)

FillNulls == CfgGet(config, "fill_nulls", <<>>)

DropColumns == CfgGet(config, "drop_columns", <<>>)

RenameColumns == CfgGet(config, "rename_columns", <<>>)

\* the list comprehension of line 105 is the second list of the heap, row i of it
\* being the copy of row i of the caller's rows
CopyList == lists[2]

\* the index, in the caller's rows, of the row that row k of list l stems from:
\* unique (the third list when remove_duplicates is on) holds references of the
\* copy, every later list is built row by row from the one before it
RECURSIVE SrcIndex(_, _)
SrcIndex(l, k) ==
    IF l <= 2 THEN k
    ELSE IF l = 3 /\ On("remove_duplicates")
    THEN CHOOSE j \in DOMAIN CopyList : CopyList[j] = lists[3][k]
    ELSE SrcIndex(l - 1, k)

\* a cell as the fill step sees it: no key, None, or blank text
Blank(d, col) ==
    \/ ~HasKey(d, col)
    \/ ~IsStr(DictGet(d, col, None))
    \/ StrStrip(DictGet(d, col, None)[1]) = ""

\* the value a cell has once the strip step has run
Stripped(v) == IF IsStr(v) /\ On("strip_whitespace") THEN Some(StrStrip(v[1])) ELSE v

CleanPcs == {"strip", "dedup", "fill", "drop", "rename", "done", "raised"}

AfterDedup == {"fill", "drop", "rename", "done"}

(***************************************************************************)
(* C1: clean_dataset runs strip, dedup, fill-nulls, drop-columns and       *)
(* rename-columns in this order, so with strip_whitespace and              *)
(* remove_duplicates on, rows that differ only in surrounding whitespace   *)
(* are duplicates and the first of them is the one kept.                   *)
(***************************************************************************)
SameWhenStripped(d1, d2) == DictEq(StripRow(d1), StripRow(d2))

FirstsWhenStripped ==
    {j \in DOMAIN input : \A i \in 1..(j - 1) : ~SameWhenStripped(input[i], input[j])}

C1_WhitespaceDuplicates ==
    (On("strip_whitespace") /\ On("remove_duplicates")) =>
        /\ pc \in AfterDedup => Len(lists[cleaned]) = Cardinality(FirstsWhenStripped)
        /\ pc = "fill" =>
              SeqToSet(lists[cleaned]) = {CopyList[j] : j \in FirstsWhenStripped}

C1_StepOrder ==
    (pc' # pc /\ pc' \in CleanPcs) =>
        <<pc, pc'>> \in {<<"idle", "strip">>, <<"strip", "dedup">>, <<"dedup", "fill">>,
                         <<"fill", "drop">>, <<"fill", "raised">>, <<"drop", "rename">>,
                         <<"rename", "done">>}

C1_FixedOrder == [](C1_WhitespaceDuplicates) /\ [][C1_StepOrder]_vars

C1_Witness ==
    /\ pc = "done"
    /\ On("strip_whitespace") /\ On("remove_duplicates")
    /\ Len(input) = 2
    /\ ~DictEq(input[1], input[2])
    /\ SameWhenStripped(input[1], input[2])
    /\ Len(lists[cleaned]) = 1

(***************************************************************************)
(* C2: no operation mutates its input.  During and after any call of      *)
(* clean_dataset, profile_dataset or aggregate, under any configuration,  *)
(* the caller's list still holds the same row mappings in the same order  *)
(* and each of them has the keys, values and key order it had before the  *)
(* call; what clean_dataset returns is another list, none of whose row    *)
(* mappings is one of the caller's.                                       *)
(***************************************************************************)
CallerRowsIntact ==
    /\ lists[rows] = [i \in 1..Len(input) |-> i]
    /\ Content(lists[rows]) = input

ReturnsNewRows ==
    /\ cleaned # rows
    /\ SeqToSet(lists[cleaned]) \cap SeqToSet(lists[rows]) = {}

C2_InputNotMutated ==
    /\ CallerRowsIntact
    /\ pc = "done" => ReturnsNewRows

\* a call that rewrote, removed and renamed, next to an untouched input
C2_Witness ==
    /\ pc = "done"
    /\ Len(input) = 2
    /\ Len(lists[cleaned]) = 1
    /\ Content(lists[cleaned]) # SubSeq(input, 1, 1)
    /\ CallerRowsIntact
    /\ ReturnsNewRows

\* aggregate and profile_dataset have returned and the rows are as they were
C2_ReadersWitness ==
    /\ pc \in {"aggregated", "profiled"}
    /\ Len(input) = 2
    /\ CallerRowsIntact

(***************************************************************************)
(* C3: the dedup step keeps a row iff no earlier row has the same set of   *)
(* (column, value) pairs, whatever the key order, and keeps the rows in    *)
(* their original relative order.                                          *)
(***************************************************************************)
FirstOccurrences(before) ==
    {i \in DOMAIN before :
        \A j \in 1..(i - 1) : ~DictEq(dicts[before[j]], dicts[before[i]])}

C3_DedupStep ==
    (pc = "dedup" /\ On("remove_duplicates")) =>
        LET before == lists[cleaned]
            after  == lists'[cleaned']
            kept   == FirstOccurrences(before)
        IN /\ Len(after) = Cardinality(kept)
           /\ \A i \in kept : after[Cardinality({j \in kept : j <= i})] = before[i]
           /\ dicts' = dicts

C3_Dedup == [][C3_DedupStep]_vars

\* rows [A, B, A'] with A' equal to A in another key order yield [A, B]
C3_Witness ==
    /\ pc = "fill"
    /\ On("remove_duplicates")
    /\ Len(input) = 3
    /\ input[1] # input[3]
    /\ DictEq(input[1], input[3])
    /\ ~SameWhenStripped(input[1], input[2])
    /\ lists[cleaned] = <<CopyList[1], CopyList[2]>>

(***************************************************************************)
(* C4: a column named by both fill_nulls and rename_columns is filled      *)
(* under its original name and then renamed.                               *)
(***************************************************************************)
FilledAndRenamed == Keys(FillNulls) \cap Keys(RenameColumns)

NewName(col) == DictGet(RenameColumns, col, col)

\* the columns, other than col, that a row stemming from src has when the rename
\* step runs
OtherColumns(src, col) ==
    ((Keys(src) \cup Keys(FillNulls)) \ SeqToSet(DropColumns)) \ {col}

Columns == {"city", "town", "zip"}

C5_FillStepAction ==
    pc = "fill" =>
        \A r \in SeqToSet(lists[cleaned]) : \A col \in Columns :
            IF HasKey(FillNulls, col) /\ Blank(dicts[r], col)
            THEN /\ HasKey(dicts'[r], col)
                 /\ DictGet(dicts'[r], col, None) = Some(PyStr(DictGet(FillNulls, col, None)))
            ELSE /\ HasKey(dicts'[r], col) <=> HasKey(dicts[r], col)
                 /\ DictGet(dicts'[r], col, None) = DictGet(dicts[r], col, None)

C5_FillStep == [][C5_FillStepAction]_vars

(***************************************************************************)
(* C6: clean_dataset never raises on missing data (a row without the key,  *)
(* a key holding None), whatever columns the configuration names.          *)
(***************************************************************************)
C6_NeverRaises == pc # "raised"

(***************************************************************************)
(* C7: with only strip_whitespace and remove_duplicates on, cleaning the   *)
(* cleaned rows again returns them unchanged.                              *)
(***************************************************************************)
\* clean_dataset with only strip_whitespace and remove_duplicates, on a record set
StripAndDedup(rs) ==
    LET refs == [i \in DOMAIN rs |-> i]
        ds   == StripStep(rs, refs)
        u    == DedupStep(ds, refs)
    IN [k \in DOMAIN u |-> ds[u[k]]]

OnlyStripAndDedup ==
    /\ On("strip_whitespace") /\ On("remove_duplicates")
    /\ FillNulls = <<>> /\ DropColumns = <<>> /\ RenameColumns = <<>>

C7_Idempotent ==
    (pc = "done" /\ OnlyStripAndDedup) =>
        StripAndDedup(Content(lists[cleaned])) = Content(lists[cleaned])

\* a run that stripped a cell and removed a row
C7_Witness ==
    /\ pc = "done" /\ OnlyStripAndDedup
    /\ Len(input) = 3
    /\ Len(lists[cleaned]) = 2
    /\ \E i \in DOMAIN input : StripRow(input[i]) # input[i]

(***************************************************************************)
(* Vocabulary of the aggregate properties                                  *)
(***************************************************************************)
GroupKey(d) == DictGet(d, args.group_by, Some(""))

\* the rows of the group whose value the code turns into a number
IncludedRows(key) ==
    {i \in DOMAIN input : GroupKey(input[i]) = key /\ ToFloat(input[i], args.agg_col) # <<>>}

\* the rows of the group whose value-column content is a number
ParsedRows(key) ==
    {i \in DOMAIN input :
        /\ GroupKey(input[i]) = key
        /\ HasKey(input[i], args.agg_col)
        /\ IsStr(DictGet(input[i], args.agg_col, None))
        /\ ParseFloat(DictGet(input[i], args.agg_col, None)[1]) # <<>>}

GroupKeys == {GroupKey(input[i]) : i \in DOMAIN input}

RecordsOf(key) == {k \in DOMAIN result : DictGet(result[k], args.group_by, None) = key}

ValueKey == args.agg_func \o "_" \o args.agg_col

(***************************************************************************)
(* C8: a row counts in its group iff its value-column content parses as a  *)
(* number; count is the number of parsed rows, and a group none of whose   *)
(* rows parses has no record.                                              *)
(***************************************************************************)
C8_OnlyParsedRowsCount ==
    pc = "aggregated" =>
        \A key \in GroupKeys :
            IF ParsedRows(key) = {} THEN RecordsOf(key) = {}
            ELSE \E k \in DOMAIN result :
                    /\ RecordsOf(key) = {k}
                    /\ DictGet(result[k], "count", 0) = Cardinality(ParsedRows(key))

(***************************************************************************)
(* C9: aggregate returns one record per group key that has an included     *)
(* row, in strictly ascending order of the key.                            *)
(***************************************************************************)
C9_WhenReturned ==
    pc = "aggregated" =>
        /\ \A key \in GroupKeys : Cardinality(RecordsOf(key)) = IF IncludedRows(key) = {} THEN 0 ELSE 1
        /\ \A k \in DOMAIN result : \E key \in GroupKeys : k \in RecordsOf(key)
        /\ \A k \in 1..(Len(result) - 1) :
              StrLess(DictGet(result[k], args.group_by, None)[1],
                      DictGet(result[k + 1], args.group_by, None)[1])

C9_OnePerGroupSorted == pc # "agg_raised" /\ C9_WhenReturned

(***************************************************************************)
(* C10: an unrecognized reducer selector gives every group the value of    *)
(* the sum reducer and never makes the call fail; a recognized one gives   *)
(* its own value; the value is stored under <selector>_<value column>.     *)
(***************************************************************************)
\* the values of the included rows of a group, as a bag of (row, value) pairs
GroupValues(key) == {<<i, ToFloat(input[i], args.agg_col)[1]>> : i \in IncludedRows(key)}

RECURSIVE Total(_)
Total(pairs) ==
    IF pairs = {} THEN 0
    ELSE LET p == CHOOSE q \in pairs : TRUE IN p[2] + Total(pairs \ {p})

\* whether h, in hundredths, is the value the selector reduces the group to
\* (for the mean: the hundredth nearest to total / n)
IsReduced(h, key, selector) ==
    \E pairs \in {GroupValues(key)} : \E total \in {Total(pairs)} :
        LET n == Cardinality(pairs)
        IN CASE selector = "sum"   -> h = 100 * total
             [] selector = "count" -> h = 100 * n
             [] selector = "min"   -> \E p \in pairs : h = 100 * p[2] /\ \A q \in pairs : p[2] <= q[2]
             [] selector = "max"   -> \E p \in pairs : h = 100 * p[2] /\ \A q \in pairs : p[2] >= q[2]
             [] selector = "mean"  -> 2 * n * h - n <= 200 * total /\ 200 * total < 2 * n * h + n

C10_ReducerSelector ==
    /\ pc = "aggregated" =>
          \A k \in DOMAIN result :
              /\ HasKey(result[k], ValueKey)
              /\ IsReduced(DictGet(result[k], ValueKey, None),
                           DictGet(result[k], args.group_by, None),
                           IF args.agg_func \in {"sum", "mean", "count", "min", "max"}
                           THEN args.agg_func ELSE "sum")
    /\ pc = "agg_raised" =>
          \E i, j \in DOMAIN input : ~IsStr(GroupKey(input[i])) /\ IsStr(GroupKey(input[j]))

\* an unrecognized selector over a group with the values 1 and 2: the sum, 3.00
C10_Witness ==
    /\ pc = "aggregated"
    /\ args.agg_func = "median"
    /\ \E k \in DOMAIN result :
          /\ DictGet(result[k], "median_salary", None) = 300
          /\ DictGet(result[k], "count", None) = 2
          /\ DictGet(result[k], "dept", None) = Some("Eng")

(***************************************************************************)
(* profile_column: the vocabulary of its claims                            *)
(***************************************************************************)
\* the values profile_dataset hands to profile_column for the column v
ColumnValues == [i \in DOMAIN input |-> DictGet(input[i], "v", Some(""))]

\* the positions of the values that are non-empty after stripping
NonNull == {i \in DOMAIN input : IsStr(ColumnValues[i]) /\ StrStrip(ColumnValues[i][1]) # ""}

\* the profile of the column v
ColumnProfile == DictGet(profiles, "v", <<>>)

(***************************************************************************)
(* C11: every column profile has null_count + non_null = total_rows, where *)
(* total_rows is the number of values given and non_null the number of     *)
(* values that are non-empty after stripping; null_pct is 0 when           *)
(* total_rows is 0 (and the tenth nearest to the percentage otherwise);    *)
(* unique_count is the number of distinct non-null values, never more than *)
(* non_null.                                                               *)
(***************************************************************************)
C11_Counts ==
    pc = "profiled" =>
        \E p \in {ColumnProfile} :
            /\ p.total_rows = Len(input)
            /\ p.non_null = Cardinality(NonNull)
            /\ p.null_count + p.non_null = p.total_rows
            /\ p.total_rows = 0 => p.null_pct = 0
            /\ p.total_rows > 0 =>
                  /\ p.total_rows * (2 * p.null_pct - 1) <= 2000 * p.null_count
                  /\ 2000 * p.null_count < p.total_rows * (2 * p.null_pct + 1)
            /\ p.unique_count = Cardinality({ColumnValues[i] : i \in NonNull})
            /\ p.unique_count <= p.non_null

\* a column with a missing, a None, a blank and two equal non-null values
C11_Witness ==
    /\ pc = "profiled"
    /\ ColumnProfile.total_rows = 4
    /\ ColumnProfile.non_null = 2
    /\ ColumnProfile.unique_count = 1
    /\ ColumnProfile.null_pct = 500
    /\ \E i \in DOMAIN input : ColumnValues[i] = Some(" ")

\* no values at all: null_pct is 0
C11_EmptyWitness ==
    /\ pc = "profiled"
    /\ ColumnProfile.total_rows = 0
    /\ ColumnProfile.null_pct = 0

(***************************************************************************)
(* C12: a column is labelled numeric iff strictly more than half of its    *)
(* non-null values parse as a number after removing commas; exactly half,  *)
(* and no non-null value at all, give categorical; a value that fails to   *)
(* parse does not make the call fail and still counts toward non_null and  *)
(* unique_count.                                                           *)
(***************************************************************************)
\* the positions of the non-null values that parse as a number
Parsed == {i \in NonNull : ParseFloat(RemoveCommas(ColumnValues[i][1])) # <<>>}

C12_MajorityNumeric ==
    pc = "profiled" =>
        \E p \in {ColumnProfile} :
            /\ p.type \in {"numeric", "categorical"}
            /\ p.type = "numeric" <=> 2 * Cardinality(Parsed) > Cardinality(NonNull)
            /\ 2 * Cardinality(Parsed) = Cardinality(NonNull) => p.type = "categorical"
            /\ NonNull = {} => p.type = "categorical"
            /\ p.non_null = Cardinality(Parsed) + Cardinality(NonNull \ Parsed)
            /\ p.unique_count = Cardinality({ColumnValues[i] : i \in NonNull})

\* two of three non-null values parse, one of them with a separator: numeric,
\* and the value that does not parse is counted
C12_Witness ==
    /\ pc = "profiled"
    /\ ColumnProfile.type = "numeric"
    /\ ColumnProfile.non_null = 3
    /\ ColumnProfile.unique_count = 3
    /\ Cardinality(Parsed) = 2
    /\ \E i \in Parsed : ColumnValues[i] = Some("1,0")

\* exactly half of the non-null values parse: categorical
C12_HalfWitness ==
    /\ pc = "profiled"
    /\ ColumnProfile.type = "categorical"
    /\ Cardinality(NonNull) = 2
    /\ Cardinality(Parsed) = 1

(***************************************************************************)
(* C13: the statistic fields of a column profile follow its type: a        *)
(* numeric profile has min, max, mean and median and neither top_5 nor     *)
(* sample, a categorical profile has top_5 and sample and no numeric       *)
(* statistic, and stdev is present iff the profile is numeric and at       *)
(* least two values parsed as numbers.                                     *)
(***************************************************************************)
NumericFields == {"min", "max", "mean", "median"}

CategoricalFields == {"top_5", "sample"}

C13_FieldsFollowType ==
    pc = "profiled" =>
        \E fields \in {DOMAIN ColumnProfile} :
            /\ ColumnProfile.type = "numeric" =>
                  /\ NumericFields \subseteq fields
                  /\ CategoricalFields \cap fields = {}
            /\ ColumnProfile.type = "categorical" =>
                  /\ CategoricalFields \subseteq fields
                  /\ (NumericFields \cup {"stdev"}) \cap fields = {}
            /\ "stdev" \in fields <=>
                  ColumnProfile.type = "numeric" /\ Cardinality(Parsed) >= 2

\* a numeric column with a single number: no stdev field
C13_Witness ==
    /\ pc = "profiled"
    /\ ColumnProfile.type = "numeric"
    /\ Cardinality(Parsed) = 1
    /\ "stdev" \notin DOMAIN ColumnProfile

\* a numeric column with the numbers 1 and 10: stdev 6.36
C13_StdevWitness ==
    /\ pc = "profiled"
    /\ ColumnProfile.type = "numeric"
    /\ Cardinality(Parsed) = 2
    /\ "stdev" \in DOMAIN ColumnProfile
    /\ ColumnProfile.stdev = 636

(***************************************************************************)
(* C14: for a categorical column, top_5 holds at most 5 entries, the most  *)
(* frequent non-null values with their exact occurrence counts, a tie in   *)
(* frequency going to the value encountered first in row order; sample is  *)
(* the first min(3, non_null) non-null values in row order.                *)
(***************************************************************************)
\* the non-null values, as strings
NonNullValues == {ColumnValues[i][1] : i \in NonNull}

Occurrences(v) == Cardinality({i \in NonNull : ColumnValues[i][1] = v})

FirstSeen(v) == CHOOSE i \in NonNull : ColumnValues[i][1] = v /\ \A j \in NonNull : j < i => ColumnValues[j][1] # v

\* v is more frequent than w, or as frequent and encountered first
Before(v, w) ==
    \/ Occurrences(v) > Occurrences(w)
    \/ Occurrences(v) = Occurrences(w) /\ FirstSeen(v) < FirstSeen(w)

C14_TopAndSample ==
    pc = "profiled" /\ ColumnProfile.type = "categorical" =>
        \E top \in {ColumnProfile.top_5} : \E sample \in {ColumnProfile.sample} :
            LET chosen == {top[k][1] : k \in DOMAIN top}
            IN /\ Len(top) <= 5
               /\ Len(top) = Cardinality(chosen)
               /\ Cardinality(chosen) = IF Cardinality(NonNullValues) < 5
                                        THEN Cardinality(NonNullValues) ELSE 5
               /\ chosen \subseteq NonNullValues
               /\ \A k \in DOMAIN top : top[k][2] = Occurrences(top[k][1])
               /\ \A v \in chosen : \A w \in NonNullValues \ chosen : Before(v, w)
               /\ Len(sample) = IF Cardinality(NonNull) < 3 THEN Cardinality(NonNull) ELSE 3
               /\ \A k \in DOMAIN sample :
                     \E i \in NonNull :
                         /\ sample[k] = ColumnValues[i][1]
                         /\ Cardinality({j \in NonNull : j < i}) = k - 1

\* six distinct values, the last one twice: it is in top_5 with its count 2 and
\* of the five values seen once the one encountered last is left out
C14_Witness ==
    /\ pc = "profiled"
    /\ ColumnProfile.type = "categorical"
    /\ Cardinality(NonNullValues) = 6
    /\ Len(ColumnProfile.top_5) = 5
    /\ \E v \in NonNullValues :
          /\ Occurrences(v) = 2
          /\ \A w \in NonNullValues \ {v} : FirstSeen(w) < FirstSeen(v)
          /\ \E k \in DOMAIN ColumnProfile.top_5 : ColumnProfile.top_5[k] = <<v, 2>>
    /\ \E w \in NonNullValues :
          /\ Occurrences(w) = 1
          /\ \A k \in DOMAIN ColumnProfile.top_5 : ColumnProfile.top_5[k][1] # w
    /\ Len(ColumnProfile.sample) = 3

(***************************************************************************)
(* C15: the change log lists, in step order, what the steps did.  As       *)
(* stated: a step that changes nothing (no duplicate removed, no cell      *)
(* filled, no column actually dropped or renamed) adds no entry, except    *)
(* strip_whitespace, which adds its entry whenever it is enabled.  What    *)
(* holds: strip adds its entry whenever it is enabled, dedup adds one      *)
(* when it removed a row, fill adds one for each configured column in which *)
(* it filled a cell, and drop and rename add theirs whenever their         *)
(* configured list or mapping is not empty, whether or not a row has any   *)
(* of the columns named.                                                   *)
(***************************************************************************)
\* the rows of the step about to run
CurrentRows == Content(lists[cleaned])

\* the entries of the fill step for the columns of fill_nulls (a sequence of
\* pairs): the number of cells it fills in each column, where that is not zero
FillEntries(fill_nulls) ==
    LET filled(col) == Cardinality({k \in DOMAIN CurrentRows : Blank(CurrentRows[k], col)})
        all == [j \in DOMAIN fill_nulls |->
                   <<"Filled nulls", filled(fill_nulls[j][1]), fill_nulls[j][1], fill_nulls[j][2]>>]
    IN SelectSeq(all, LAMBDA e : e[2] > 0)

\* strip, dedup and fill, which the claim and the code agree on
LogOfFirstSteps ==
    /\ pc = "strip" =>
          changes' = IF On("strip_whitespace")
                     THEN Append(changes, <<"Stripped whitespace from all string values">>)
                     ELSE changes
    /\ pc = "dedup" =>
          LET removed == Len(lists[cleaned]) - Len(lists'[cleaned'])
          IN changes' = IF removed > 0
                        THEN Append(changes, <<"Removed duplicate rows", removed>>)
                        ELSE changes
    /\ pc = "fill" =>
          IF pc' = "raised"
          THEN \E j \in DOMAIN FillNulls :
                  changes' = changes \o FillEntries(SubSeq(FillNulls, 1, j - 1))
          ELSE changes' = changes \o FillEntries(FillNulls)

\* a row has one of the columns to drop / one of the columns to rename
SomeColumnDropped ==
    \E k \in DOMAIN CurrentRows : \E c \in SeqToSet(DropColumns) : HasKey(CurrentRows[k], c)

SomeColumnRenamed ==
    \E k \in DOMAIN CurrentRows : \E c \in Keys(RenameColumns) : HasKey(CurrentRows[k], c)

C15_LogAsStatedAction ==
    /\ LogOfFirstSteps
    /\ pc = "drop" =>
          changes' = IF SomeColumnDropped
                     THEN Append(changes, <<"Dropped columns", DropColumns>>)
                     ELSE changes
    /\ pc = "rename" =>
          changes' = IF SomeColumnRenamed
                     THEN Append(changes, <<"Renamed columns", RenameColumns>>)
                     ELSE changes

C15_ChangeLog_AsStated == [][C15_LogAsStatedAction]_vars

C15_LogAction ==
    /\ LogOfFirstSteps
    /\ pc = "drop" =>
          changes' = IF DropColumns # <<>>
                     THEN Append(changes, <<"Dropped columns", DropColumns>>)
                     ELSE changes
    /\ pc = "rename" =>
          changes' = IF RenameColumns # <<>>
                     THEN Append(changes, <<"Renamed columns", RenameColumns>>)
                     ELSE changes

\* the place of an entry's step in the order of the steps
StepRank(entry) ==
    CASE entry[1] = "Stripped whitespace from all string values" -> 1
      [] entry[1] = "Removed duplicate rows" -> 2
      [] entry[1] = "Filled nulls" -> 3
      [] entry[1] = "Dropped columns" -> 4
      [] entry[1] = "Renamed columns" -> 5

InStepOrder ==
    \A i, j \in DOMAIN changes : i < j =>
        /\ StepRank(changes[i]) <= StepRank(changes[j])
        /\ StepRank(changes[i]) = StepRank(changes[j]) => StepRank(changes[i]) = 3

C15_ChangeLog == []InStepOrder /\ [][C15_LogAction]_vars

\* a run whose rows never have the column city, with drop_columns = [city] and
\* rename_columns = {city: town}: both steps are in the log
C15_Witness ==
    /\ pc = "done"
    /\ Len(input) = 2
    /\ \A i \in DOMAIN input : ~HasKey(input[i], "city")
    /\ FillNulls = <<>>
    /\ DropColumns = <<"city">>
    /\ Keys(RenameColumns) = {"city"}
    /\ changes = << <<"Stripped whitespace from all string values">>,
                    <<"Removed duplicate rows", 1>>,
                    <<"Dropped columns", DropColumns>>,
                    <<"Renamed columns", RenameColumns>> >>

(***************************************************************************)
(* C16: after the drop-columns step with the configured list D no row has  *)
(* a key in D, every key not in D is kept with its value, the number and   *)
(* order of the rows is unchanged, and a column of D that no row has is    *)
(* skipped without an error.                                               *)
(***************************************************************************)
\* the rows once the step has run
NextRows == [i \in DOMAIN lists'[cleaned'] |-> dicts'[lists'[cleaned'][i]]]

C16_DropAction ==
    pc = "drop" =>
        \E before \in {CurrentRows} : \E after \in {NextRows} :
            /\ pc' = "rename"
            /\ Len(after) = Len(before)
            /\ \A i \in DOMAIN before :
                  /\ Keys(after[i]) = Keys(before[i]) \ SeqToSet(DropColumns)
                  /\ \A k \in Keys(after[i]) :
                        DictGet(after[i], k, None) = DictGet(before[i], k, None)
            /\ ~SomeColumnDropped => after = before

C16_DropColumns == [][C16_DropAction]_vars

\* the step has dropped city from a row that keeps its town, next to a row
\* that never had the column
C16_Witness ==
    /\ pc = "rename"
    /\ DropColumns = <<"city">>
    /\ FillNulls = <<>>
    /\ ~On("remove_duplicates")
    /\ Len(input) = 2
    /\ Keys(input[1]) = {"city", "town"}
    /\ Keys(input[2]) = {"town"}
    /\ \A i \in DOMAIN CurrentRows : Keys(CurrentRows[i]) = {"town"}

(***************************************************************************)
(* C17: the rename step.  As stated: in every row each configured old key  *)
(* the row has is replaced by its new key with the same value, and every   *)
(* unmapped key stays with its original value.  What holds: the keys of a  *)
(* row become their new names (an unmapped key is its own new name), and a *)
(* name holds the value of the last key of the row that got it; so the     *)
(* statement holds for the rows in which no two keys get the same name,    *)
(* and where two do, one of the two values is lost.                        *)
(***************************************************************************)
\* rename.get(k, k)
NameAfter(k) == DictGet(RenameColumns, k, k)

\* no two keys of the row get the same name
NoCollision(d) == \A k1, k2 \in Keys(d) : NameAfter(k1) = NameAfter(k2) => k1 = k2

\* the old keys are replaced and the unmapped keys are left as they were
RenamedAsStated(before, after) ==
    \A k \in Keys(before) :
        /\ HasKey(after, NameAfter(k))
        /\ DictGet(after, NameAfter(k), None) = DictGet(before, k, None)
        /\ HasKey(RenameColumns, k) /\ NameAfter(k) # k /\ HasKey(after, k)
              => \E k2 \in Keys(before) : k2 # k /\ NameAfter(k2) = k

C17_RenameAsStatedAction ==
    pc = "rename" =>
        \E before \in {CurrentRows} : \E after \in {NextRows} :
            /\ Len(after) = Len(before)
            /\ \A i \in DOMAIN before : RenamedAsStated(before[i], after[i])

C17_Rename_AsStated == [][C17_RenameAsStatedAction]_vars

C17_RenameAction ==
    pc = "rename" =>
        \E before \in {CurrentRows} : \E after \in {NextRows} :
            /\ pc' = "done"
            /\ Len(after) = Len(before)
            /\ \A i \in DOMAIN before :
                  /\ Keys(after[i]) = {NameAfter(k) : k \in Keys(before[i])}
                  /\ \A n \in Keys(after[i]) :
                        \E k \in Keys(before[i]) :
                            /\ NameAfter(k) = n
                            /\ DictGet(after[i], n, None) = DictGet(before[i], k, None)
                            /\ \A k2 \in Keys(before[i]) :
                                  NameAfter(k2) = n
                                      => KeyIndex(before[i], k2) <= KeyIndex(before[i], k)
                  /\ NoCollision(before[i]) => RenamedAsStated(before[i], after[i])

C17_Rename == [][C17_RenameAction]_vars

\* the step has renamed city to town in a row without a town, and swapped the
\* two names in a row with both columns
C17_Witness ==
    /\ pc = "done"
    /\ FillNulls = <<>>
    /\ DropColumns = <<>>
    /\ ~On("strip_whitespace")
    /\ \/ /\ RenameColumns = << <<"city", "town">> >>
          /\ input = << << <<"city", Some(" a ")>> >> >>
          /\ CurrentRows = << << <<"town", Some(" a ")>> >> >>
       \/ /\ Len(RenameColumns) = 2
          /\ input = << << <<"city", Some("a")>>, <<"town", Some("b")>> >> >>
          /\ CurrentRows = << << <<"town", Some("a")>>, <<"city", Some("b")>> >> >>

\* city renamed to town in a row that has a town: one value is lost
C17_CollisionWitness ==
    /\ pc = "done"
    /\ FillNulls = <<>>
    /\ DropColumns = <<>>
    /\ RenameColumns = << <<"city", "town">> >>
    /\ input = << << <<"city", Some("a")>>, <<"town", Some("b")>> >> >>
    /\ CurrentRows = << << <<"town", Some("b")>> >> >>

(***************************************************************************)
(* C18: clean_dataset honours the documented option filter_rows: with      *)
(* filter_rows = {column: allowed values} in the config, every row of the  *)
(* output has one of the allowed values in that column.                    *)
(***************************************************************************)
FilterRows == CfgGet(config, "filter_rows", <<>>)

C18_FilterRows ==
    pc = "done" =>
        \A j \in DOMAIN FilterRows : \A k \in DOMAIN CurrentRows :
            \E v \in {DictGet(CurrentRows[k], FilterRows[j][1], None)} :
                IsStr(v) /\ v[1] \in SeqToSet(FilterRows[j][2])

(***************************************************************************)
(* C19: only the dedup step changes the number of rows.  Fill, drop and    *)
(* rename keep the number and the relative order of the rows, so the       *)
(* output has as many rows as there are distinct rows right after the      *)
(* strip step (as many as the input when remove_duplicates is off), and    *)
(* rows that become equal only through a later fill, drop or rename are    *)
(* all retained.                                                           *)
(***************************************************************************)
\* the rows right after the strip step, each as its set of (column, value) pairs
RowsAfterStrip ==
    [i \in DOMAIN input |->
        SeqToSet(IF On("strip_whitespace") THEN StripRow(input[i]) ELSE input[i])]

DistinctAfterStrip == Cardinality(SeqToSet(RowsAfterStrip))

C19_RowCount ==
    pc \in AfterDedup \cup {"raised"} =>
        /\ Len(CurrentRows) = IF On("remove_duplicates") THEN DistinctAfterStrip ELSE Len(input)
        /\ \A k \in 1..(Len(CurrentRows) - 1) : SrcIndex(cleaned, k) < SrcIndex(cleaned, k + 1)

C19_LaterStepsAction ==
    pc \in {"fill", "drop", "rename"} => Len(NextRows) = Len(CurrentRows)

C19_OnlyDedupChangesRowCount == []C19_RowCount /\ [][C19_LaterStepsAction]_vars

\* two rows that differ after the strip step and are equal in the output, with
\* remove_duplicates on: both are there
C19_Witness ==
    /\ pc = "done"
    /\ On("remove_duplicates")
    /\ DistinctAfterStrip = 2
    /\ Len(CurrentRows) = 2
    /\ DictEq(CurrentRows[1], CurrentRows[2])
    /\ CurrentRows[1] # <<>>

(***************************************************************************)
(* C20: fetch_paginated requests the pages 1, 2, 3, ... in this order, at  *)
(* most max_pages of them, and none after the first page that is an empty  *)
(* list, a wrapper without items, or neither a list nor an object; the     *)
(* list it returns is the concatenation, in page order, of the items of    *)
(* the pages fetched before that one.  The items of a wrapper are what it  *)
(* holds under results, or else under items, or else under data.           *)
(***************************************************************************)
\* what a wrapper holds where its items should be
Held(d) ==
    IF HasKey(d, "results") THEN DictGet(d, "results", <<>>)
    ELSE IF HasKey(d, "items") THEN DictGet(d, "items", <<>>)
    ELSE IF HasKey(d, "data") THEN DictGet(d, "data", <<>>)
    ELSE JList(<<>>)

\* the items of a page: a list itself, the item list of a wrapper
ItemsOf(data) ==
    IF data[1] = "list" THEN data[2]
    ELSE IF data[1] = "dict" /\ Held(data[2])[1] = "list" THEN Held(data[2])[2]
    ELSE <<>>

\* an empty list, a wrapper without items, or neither a list nor an object
EndsPaging(data) ==
    \/ data[1] = "list" /\ data[2] = <<>>
    \/ data[1] = "dict" /\ ~Truthy(Held(data[2]))
    \/ data[1] \in {"int", "null"}

RECURSIVE ItemsUpTo(_)
ItemsUpTo(n) == IF n = 0 THEN <<>> ELSE ItemsUpTo(n - 1) \o ItemsOf(fetched[n][2])

C20_Paging ==
    pc \in {"loop", "returned", "fetch_raised"} =>
        /\ \A k \in DOMAIN fetched : fetched[k][1] = k
        /\ Len(fetched) <= max_pages
        /\ \A k \in 1..(Len(fetched) - 1) : ItemsOf(fetched[k][2]) # <<>>
        /\ pc = "loop" => page = Len(fetched) + 1 /\ all_items = ItemsUpTo(Len(fetched))
        /\ pc = "returned" =>
              /\ Len(fetched) = max_pages \/ EndsPaging(fetched[Len(fetched)][2])
              /\ all_items = ItemsUpTo(Len(fetched))

\* three pages asked for, the third has no items: the items of pages 1 and 2
C20_Witness ==
    /\ pc = "returned"
    /\ max_pages = 3
    /\ Len(fetched) = 3
    /\ fetched[1][2][1] = "list"
    /\ fetched[2][2][1] = "dict"
    /\ fetched[3][2] = JList(<<>>)
    /\ all_items = <<"y", "z", "y">>

\* the first page ends the paging: one fetch of the three allowed
C20_StopWitness ==
    /\ pc = "returned"
    /\ max_pages = 3
    /\ Len(fetched) = 1
    /\ fetched[1][2] = <<"null">>
    /\ all_items = <<>>

(***************************************************************************)
(* chunk_text: termination, coverage and chunk length                      *)
(***************************************************************************)
\* the call has returned
Terminated == pc = "chunked"

\* the text has at least one word
HasWords == words # <<>>

\* what the start index advances by per iteration
Stride == chunk_size - overlap

\* the words of the k-th chunk: chunk_size words from index (k - 1) * Stride on,
\* or as many as the text still has
WordsOfChunk(k) ==
    SubSeq(words, (k - 1) * Stride + 1,
           IF (k - 1) * Stride + chunk_size > Len(words)
           THEN Len(words) ELSE (k - 1) * Stride + chunk_size)

\* every word of the text is in a chunk: the chunk that holds its position
EveryWordChunked ==
    \A i \in 1..Len(words) :
        \E k \in 1..Len(chunks) :
            /\ chunks[k] = Join(" ", WordsOfChunk(k))
            /\ (k - 1) * Stride < i
            /\ i <= (k - 1) * Stride + chunk_size
            /\ words[i] \in SeqToSet(Split(chunks[k]))

AtMostChunkSize == \A k \in 1..Len(chunks) : Len(Split(chunks[k])) <= chunk_size

\* what a returned call has produced
ChunksAsStated == EveryWordChunked /\ AtMostChunkSize

\* with an overlap that is not below chunk_size and a text that has a word,
\* a step of the call leaves it in the loop with the loop condition true:
\* start does not grow
StaysInLoop ==
    (pc = "while" /\ HasWords /\ overlap >= chunk_size)
        => (pc' = "while" /\ start' <= start /\ start' < Len(words'))

\* C21 as stated: for chunk_size >= 1 and overlap >= 0, chunk_text on a
\* non-empty text terminates if and only if overlap < chunk_size; when it
\* terminates, every word of the text appears in at least one chunk and each
\* chunk has at most chunk_size words.
C21_ChunkText_AsStated ==
    /\ [](Terminated /\ text # "" => overlap < chunk_size /\ ChunksAsStated)
    /\ (pc = "while" /\ text # "" /\ overlap < chunk_size) ~> Terminated

\* C21: for chunk_size >= 1 and overlap >= 0, chunk_text on a text that has at
\* least one word terminates if and only if overlap < chunk_size (start
\* advances by chunk_size - overlap per iteration, so with a larger overlap
\* the loop condition stays true); on a text without words (empty or
\* whitespace only) it terminates whatever the overlap; when it terminates,
\* every word of the text appears in at least one chunk and each chunk has at
\* most chunk_size words.
C21_ChunkText ==
    /\ [](Terminated => (~HasWords \/ overlap < chunk_size) /\ ChunksAsStated)
    /\ [][StaysInLoop]_vars
    /\ (pc = "while" /\ (~HasWords \/ overlap < chunk_size)) ~> Terminated

\* a returned call on three words with overlapping chunks
C21_Witness ==
    /\ Terminated
    /\ Len(words) = 3
    /\ overlap >= 1
    /\ Len(chunks) >= 2

\* a call that is still in its loop after MaxChunks iterations
C21_LoopWitness ==
    /\ pc = "while"
    /\ HasWords
    /\ overlap >= chunk_size
    /\ Len(chunks) = MaxChunks

\* a returned call on a whitespace-only text with an overlap not below chunk_size
C21_BlankWitness ==
    /\ Terminated
    /\ text # ""
    /\ ~HasWords
    /\ overlap >= chunk_size

====
